---- MODULE Spec2Model ----
(***************************************************************************)
(* Model of sensor.c: a Contiki mote with a simulated room climate.        *)
(* Processes: boot_process, temperature_sensing, temperature_simulation,   *)
(* rest_server (resource handlers).  Contiki processes are cooperative:    *)
(* every handler runs to its next wait point, so each is one atomic step.  *)
(* Time is counted in seconds (clock_time() / CLOCK_SECOND).               *)
(***************************************************************************)
EXTENDS Integers, Sequences, FiniteSets, TLC

\* ---------------------------------------------------------------- constants
TEMP_RANDOM_MIN == 10
TEMP_RANDOM_MAX == 30
TEMP_SENSING_INTERVAL == 5
TEMP_SIM_INTERVAL == 20
PayloadSize == 20
\* Erbium's default chunk size, the size of the buffer handed to the handlers
REST_MAX_CHUNK_SIZE == 128

\* status_t
NONE == "NONE"
COOLING == "COOLING"
HEATING == "HEATING"
status_t == {NONE, COOLING, HEATING}

\* dev/leds.h colours used as actuators
LEDS_BLUE == "BLUE"
LEDS_RED == "RED"
LEDS_GREEN == "GREEN"

\* REST.status values set by the handlers ("none": no response produced yet)
OK == "OK"
BAD_REQUEST == "BAD_REQUEST"

\* events delivered to temperature_simulation
PROCESS_EVENT_TIMER == "TIMER"
PROCESS_EVENT_MSG == "MSG"

\* the mutating resources a client can POST to
Resources == {"systems/cooling", "systems/heating", "systems/ventilation"}

\* the resources a client can GET
ReadResources == {"systems", "temp"}

\* ------------------------------------------------------------------- bounds
\* last second the clock is advanced to
MaxTime == 42
\* the values drawn for random_rand(), an unsigned short: the least, the two
\* around the wrap of the modulo, and the greatest
RandomValues ==
  {0, TEMP_RANDOM_MAX - TEMP_RANDOM_MIN, TEMP_RANDOM_MAX + 1 - TEMP_RANDOM_MIN,
   65535}
\* most events posted to temperature_simulation within one second
MaxMsgs == 1

\* -------------------------------------------------------------------- state
VARIABLES
  pc,              \* "boot" before boot_process has run, "run" afterwards
  now,             \* clock_time() in seconds
  temperature,     \* static int temperature
  status,          \* static status_t status
  ventilation,     \* static bool ventilation
  leds,            \* set of LEDs that are on (the actuators)
  previous_status, \* static of temperature_simulation
  sensing_timer,   \* start time of temperature_sensing's etimer
  sim_timer,       \* start time of temperature_simulation's etimer
  periodic_timer,  \* start time of the periodic resource's etimer
  sim_msgs,        \* PROCESS_EVENT_MSG events queued for temperature_simulation
  request,         \* the request in flight ("none" when there is none)
  response,        \* status of the response to the last handled request
  counter,         \* static uint16_t counter of temperature_periodic_handler
  payload,         \* static char payload[20] of temperature_periodic_handler
  message,         \* last message handed to REST.notify_subscribers
  body,            \* payload of the response to the last handled request
  h                \* history (observation only, never read by the program)

vars == <<pc, now, temperature, status, ventilation, leds, previous_status,
          sensing_timer, sim_timer, periodic_timer, sim_msgs, request,
          response, counter, payload, message, body, h>>

\* ------------------------------------------------------------------ helpers
Min(a, b) == IF a < b THEN a ELSE b

\* etimer_expired: the interval has elapsed since the timer was (re)started
Expired(start, interval) == now - start >= interval

SimExpired == pc = "run" /\ Expired(sim_timer, TEMP_SIM_INTERVAL)
SensingExpired == pc = "run" /\ Expired(sensing_timer, TEMP_SENSING_INTERVAL)
PeriodicExpired == pc = "run" /\ Expired(periodic_timer, TEMP_SENSING_INTERVAL)

\* variant: a sensor that reads one degree high
read_temperature_offset == temperature + 1

\* read_temperature(): returns the simulated temperature
read_temperature == temperature

\* leds_on / leds_off behind start_*_system / stop_*_system
\* variant: the wrong LED is switched on
start_cooling_system_red(l) == l \cup {LEDS_RED}
start_cooling_system(l) == l \cup {LEDS_BLUE}
stop_cooling_system(l) == l \ {LEDS_BLUE}
start_heating_system(l) == l \cup {LEDS_RED}
\* variant: the wrong LED is switched off
stop_heating_system_blue(l) == l \ {LEDS_BLUE}
stop_heating_system(l) == l \ {LEDS_RED}
start_ventilation_system(l) == l \cup {LEDS_GREEN}
stop_ventilation_system(l) == l \ {LEDS_GREEN}

\* "#if SIMULATION" around process_post in the cooling and heating handlers:
\* the macro that is defined is SIMULATION_ENABLED, SIMULATION is not, so the
\* preprocessor evaluates the condition to 0 and drops the call.
SIMULATION == FALSE
process_post(q) == IF SIMULATION THEN q + 1 ELSE q

\* --------------------------------------------------------------- text
Digit(d) == SubSeq("0123456789", d + 1, d + 1)

RECURSIVE Decimal(_)
\* %d of a non-negative integer
Decimal(n) == IF n < 10 THEN Digit(n) ELSE Decimal(n \div 10) \o Digit(n % 10)

\* %d
FormatInt(n) == IF n < 0 THEN "-" \o Decimal(0 - n) ELSE Decimal(n)

\* snprintf(buf, size, ...) of the formatted text: the buffer receives at most
\* size - 1 characters and a terminator, the return value is the length the
\* whole text would have had.
snprintf(size, text) ==
  [str |-> SubSeq(text, 1, Min(Len(text), size - 1)), ret |-> Len(text)]

\* "{\n\"temperature\":%d\n}"
PeriodicFormat(t) == "{\n\"temperature\":" \o FormatInt(t) \o "\n}"

\* "{\n\"temp\":%d\n}"
TempFormat(t) == "{\n\"temp\":" \o FormatInt(t) \o "\n}"

\* the %s arguments of systems_handler: "\"true\"" and "\"false\""
BoolText(b) == IF b THEN "\"true\"" ELSE "\"false\""

\* "{\n\"heating\":\"%s\",\n\"cooling\":\"%s\",\n\"ventilation\":\"%s\"\n}"
SystemsFormat(hs, cs, vs) ==
  "{\n\"heating\":\"" \o hs \o "\",\n\"cooling\":\"" \o cs
  \o "\",\n\"ventilation\":\"" \o vs \o "\"\n}"

\* coap_set_payload(message, payload, length): the message carries `length`
\* bytes starting at the buffer; text is the part of them before the terminator.
coap_set_payload(str, length) ==
  [text |-> SubSeq(str, 1, Min(Len(str), length)), length |-> length]

\* ------------------------------------------------------------------ history
\* held:  seconds since status last changed (capped at TEMP_SIM_INTERVAL + 1)
\* t0:    temperature when status last changed
\* vsame: ventilation has not been toggled since status last changed
\* phase: the simulation timer was expired (its tick still to be handled)
\*        at the moment status last changed
\* vprev: ventilation before the previous ventilation request (<<>> when
\*        there was no such request)
\* ticks: ticks of the simulation handled so far
\* posts: events posted to the simulation in the current second
\* rd:    the last read (its resource, the payload returned, and whether the
\*        read before it was of the same resource: n = 2), <<>> when there
\*        was none or status, ventilation or temperature were written since
HistInit ==
  [held |-> 0, t0 |-> 0, vsame |-> TRUE, phase |-> FALSE, vprev |-> <<>>,
   ticks |-> 0, posts |-> 0, rd |-> <<>>]

HistStatusChange(hh) ==
  [hh EXCEPT !.held = 0, !.t0 = temperature, !.vsame = TRUE,
             !.phase = SimExpired, !.rd = <<>>]

HistVentilation(hh) ==
  [hh EXCEPT !.vsame = FALSE, !.vprev = <<ventilation>>, !.rd = <<>>]

HistTick(hh) ==
  [hh EXCEPT !.ticks = @ + 1, !.rd = <<>>]

HistRead(hh, r, b) ==
  [hh EXCEPT !.rd = <<[res |-> r, body |-> b,
                       n |-> IF hh.rd # <<>> /\ hh.rd[1].res = r
                             THEN 2 ELSE 1]>>]

\* a second passes; once more than a full period has passed since the last
\* status change, what was recorded at the change is dropped
HistClock(hh) ==
  IF hh.held >= TEMP_SIM_INTERVAL
  THEN [HistInit EXCEPT !.held = TEMP_SIM_INTERVAL + 1, !.vprev = hh.vprev,
                        !.ticks = hh.ticks, !.rd = hh.rd]
  ELSE [hh EXCEPT !.held = @ + 1, !.posts = 0]

\* --------------------------------------------------------------------- Init
\* C statics are zero-initialised: temperature 0, status NONE (enumerator 0),
\* ventilation false, previous_status NONE, counter 0, payload empty.
Init ==
  /\ pc = "boot"
  /\ now = 0
  /\ temperature = 0
  /\ status = NONE
  /\ ventilation = FALSE
  /\ leds = {}
  /\ previous_status = NONE
  /\ sensing_timer = 0
  /\ sim_timer = 0
  /\ periodic_timer = 0
  /\ sim_msgs = 0
  /\ request = "none"
  /\ response = "none"
  /\ counter = 0
  /\ payload = ""
  /\ message = [text |-> "", length |-> 0]
  /\ body = ""
  /\ h = HistInit

\* ------------------------------------------------------------------ actions
\* variant: the modulus taken over TEMP_RANDOM_MAX + 1
RandomTemperature_wide(r) ==
  (r % (TEMP_RANDOM_MAX + 1)) + TEMP_RANDOM_MIN

\* the range expression of boot_process
RandomTemperature(r) ==
  (r % (TEMP_RANDOM_MAX + 1 - TEMP_RANDOM_MIN)) + TEMP_RANDOM_MIN

\* boot_process: draws the temperature, resets status and ventilation and
\* starts the other processes; process_start runs each of them up to its
\* first wait, i.e. arms its timer (rest_server arms the periodic resource).
boot_process ==
  /\ pc = "boot"
  /\ \E r \in RandomValues : temperature' = RandomTemperature(r)
  /\ status' = NONE
  /\ ventilation' = FALSE
  /\ sensing_timer' = now
  /\ periodic_timer' = now
  /\ previous_status' = status'
  /\ sim_timer' = now
  /\ pc' = "run"
  /\ h' = [HistInit EXCEPT !.t0 = temperature']
  /\ UNCHANGED <<now, leds, sim_msgs, request, response, counter, payload,
                 message, body>>

\* One second passes.  Timer events and requests are handled well within a
\* second, so the clock advances only when no event is waiting; by then the
\* response to the last request has been sent.
ClockTick ==
  /\ pc = "run"
  /\ now < MaxTime
  /\ request = "none"
  /\ sim_msgs = 0
  /\ ~SimExpired /\ ~SensingExpired /\ ~PeriodicExpired
  /\ now' = now + 1
  /\ response' = "none"
  /\ body' = ""
  /\ h' = HistClock(h)
  /\ UNCHANGED <<pc, temperature, status, ventilation, leds, previous_status,
                 sensing_timer, sim_timer, periodic_timer, sim_msgs, request,
                 counter, payload, message>>

\* A client's POST arrives at the REST engine.
Receive ==
  /\ pc = "run"
  /\ request = "none"
  /\ \E r \in Resources : request' = r
  /\ response' = "none"
  /\ body' = ""
  /\ UNCHANGED <<pc, now, temperature, status, ventilation, leds,
                 previous_status, sensing_timer, sim_timer, periodic_timer,
                 sim_msgs, counter, payload, message, h>>

\* temperature_sensing: on its timer, temperature = read_temperature() and
\* etimer_restart.
temperature_sensing ==
  /\ SensingExpired
  /\ temperature' = read_temperature
  /\ sensing_timer' = now
  /\ UNCHANGED <<pc, now, status, ventilation, leds, previous_status,
                 sim_timer, periodic_timer, sim_msgs, request, response,
                 counter, payload, message, body, h>>

\* the events the scheduler can deliver to temperature_simulation now
SimEvents ==
  (IF SimExpired THEN {PROCESS_EVENT_TIMER} ELSE {})
  \cup (IF pc = "run" /\ sim_msgs > 0 THEN {PROCESS_EVENT_MSG} ELSE {})

\* variant: the two factors exchanged
factor_swapped == IF ventilation THEN 1 ELSE 2

\* int factor = ventilation ? 2 : 1
factor == IF ventilation THEN 2 ELSE 1

\* variant: the two branches exchanged
SimulatedTemperature_inverted ==
  IF status = COOLING THEN temperature + 1 * factor
  ELSE IF status = HEATING THEN temperature - 1 * factor
  ELSE temperature

\* variant: the temperature is kept inside the initial range
SimulatedTemperature_clamped ==
  IF status = COOLING
  THEN (IF temperature - 1 * factor < TEMP_RANDOM_MIN
        THEN TEMP_RANDOM_MIN ELSE temperature - 1 * factor)
  ELSE IF status = HEATING
  THEN (IF temperature + 1 * factor > TEMP_RANDOM_MAX
        THEN TEMP_RANDOM_MAX ELSE temperature + 1 * factor)
  ELSE temperature

\* the temperature after a tick of the simulation
SimulatedTemperature ==
  IF status = COOLING THEN temperature - 1 * factor
  ELSE IF status = HEATING THEN temperature + 1 * factor
  ELSE temperature

\* variant: every PROCESS_EVENT_MSG restarts the timer
temperature_simulation_always ==
  \E ev \in SimEvents :
    /\ sim_msgs' = IF ev = PROCESS_EVENT_MSG THEN sim_msgs - 1 ELSE sim_msgs
    /\ IF ev = PROCESS_EVENT_TIMER
       THEN /\ temperature' = SimulatedTemperature
            /\ sim_timer' = now
            /\ UNCHANGED previous_status
            /\ h' = HistTick(h)
       ELSE /\ previous_status' = status
            /\ sim_timer' = now
            /\ UNCHANGED <<temperature, h>>
    /\ UNCHANGED <<pc, now, status, ventilation, leds, sensing_timer,
                   periodic_timer, request, response, counter, payload,
                   message, body>>

\* temperature_simulation: one pass of the loop body after PROCESS_WAIT_EVENT
temperature_simulation ==
  \E ev \in SimEvents :
    /\ sim_msgs' = IF ev = PROCESS_EVENT_MSG THEN sim_msgs - 1 ELSE sim_msgs
    /\ IF ev = PROCESS_EVENT_TIMER
       THEN /\ temperature' = SimulatedTemperature
            /\ sim_timer' = now
            /\ UNCHANGED previous_status
            /\ h' = HistTick(h)
       ELSE IF ev = PROCESS_EVENT_MSG /\ previous_status # status
       THEN /\ previous_status' = status
            /\ sim_timer' = now
            /\ UNCHANGED <<temperature, h>>
       ELSE UNCHANGED <<temperature, sim_timer, previous_status, h>>
    /\ UNCHANGED <<pc, now, status, ventilation, leds, sensing_timer,
                   periodic_timer, request, response, counter, payload,
                   message, body>>

\* variant: the test copied from heating_handler
cooling_conflict_copied == status # NONE /\ status # HEATING

\* variant: anything but Off is rejected
cooling_conflict_strict == status # NONE

\* the guard of cooling_handler's rejection
cooling_conflict == status # NONE /\ status # COOLING

\* cooling_handler: POST systems/cooling
cooling_handler ==
  /\ pc = "run"
  /\ request = "systems/cooling"
  /\ request' = "none"
  /\ IF cooling_conflict
     THEN /\ response' = BAD_REQUEST
          /\ UNCHANGED <<status, leds, sim_msgs, h>>
     ELSE /\ response' = OK
          /\ IF status = NONE
             THEN /\ status' = COOLING
                  /\ leds' = start_cooling_system(leds)
             ELSE /\ leds' = stop_cooling_system(leds)
                  /\ status' = NONE
          /\ sim_msgs' = process_post(sim_msgs)
          /\ h' = HistStatusChange(h)
  /\ body' = ""
  /\ UNCHANGED <<pc, now, temperature, ventilation, previous_status,
                 sensing_timer, sim_timer, periodic_timer, counter, payload,
                 message>>

\* the guard of heating_handler's rejection
heating_conflict == status # NONE /\ status # HEATING

\* variant: no rejection, the request starts heating unless it is running
heating_handler_unchecked ==
  /\ pc = "run"
  /\ request = "systems/heating"
  /\ request' = "none"
  /\ response' = OK
  /\ IF status # HEATING
     THEN /\ status' = HEATING
          /\ leds' = start_heating_system(leds)
     ELSE /\ leds' = stop_heating_system(leds)
          /\ status' = NONE
  /\ sim_msgs' = process_post(sim_msgs)
  /\ h' = HistStatusChange(h)
  /\ body' = ""
  /\ UNCHANGED <<pc, now, temperature, ventilation, previous_status,
                 sensing_timer, sim_timer, periodic_timer, counter, payload,
                 message>>

\* heating_handler: POST systems/heating
heating_handler ==
  /\ pc = "run"
  /\ request = "systems/heating"
  /\ request' = "none"
  /\ IF heating_conflict
     THEN /\ response' = BAD_REQUEST
          /\ UNCHANGED <<status, leds, sim_msgs, h>>
     ELSE /\ response' = OK
          /\ IF status = NONE
             THEN /\ status' = HEATING
                  /\ leds' = start_heating_system(leds)
             ELSE /\ leds' = stop_heating_system(leds)
                  /\ status' = NONE
          /\ sim_msgs' = process_post(sim_msgs)
          /\ h' = HistStatusChange(h)
  /\ body' = ""
  /\ UNCHANGED <<pc, now, temperature, ventilation, previous_status,
                 sensing_timer, sim_timer, periodic_timer, counter, payload,
                 message>>

\* variant: the stop branch leaves the flag set
ventilation_handler_stuck ==
  /\ pc = "run"
  /\ request = "systems/ventilation"
  /\ request' = "none"
  /\ IF ~ventilation
     THEN /\ ventilation' = TRUE
          /\ leds' = start_ventilation_system(leds)
     ELSE /\ leds' = stop_ventilation_system(leds)
          /\ ventilation' = ventilation
  /\ response' = OK
  /\ body' = ""
  /\ h' = HistVentilation(h)
  /\ UNCHANGED <<pc, now, temperature, status, previous_status,
                 sensing_timer, sim_timer, periodic_timer, sim_msgs, counter,
                 payload, message>>

\* variant: the handler notifies the simulation as the climate handlers do
ventilation_handler_posting ==
  /\ pc = "run"
  /\ request = "systems/ventilation"
  /\ request' = "none"
  /\ IF ~ventilation
     THEN /\ ventilation' = TRUE
          /\ leds' = start_ventilation_system(leds)
     ELSE /\ leds' = stop_ventilation_system(leds)
          /\ ventilation' = FALSE
  /\ response' = OK
  /\ body' = ""
  /\ h' = HistVentilation(h)
  /\ sim_msgs' = sim_msgs + 1
  /\ UNCHANGED <<pc, now, temperature, status, previous_status,
                 sensing_timer, sim_timer, periodic_timer, counter,
                 payload, message>>

\* ventilation_handler: POST systems/ventilation
ventilation_handler ==
  /\ pc = "run"
  /\ request = "systems/ventilation"
  /\ request' = "none"
  /\ IF ~ventilation
     THEN /\ ventilation' = TRUE
          /\ leds' = start_ventilation_system(leds)
     ELSE /\ leds' = stop_ventilation_system(leds)
          /\ ventilation' = FALSE
  /\ response' = OK
  /\ body' = ""
  /\ h' = HistVentilation(h)
  /\ UNCHANGED <<pc, now, temperature, status, previous_status,
                 sensing_timer, sim_timer, periodic_timer, sim_msgs, counter,
                 payload, message>>

\* variant: subscribers are notified only when the text changed
temperature_periodic_handler_onchange ==
  /\ PeriodicExpired
  /\ LET out == snprintf(PayloadSize, PeriodicFormat(temperature))
     IN /\ payload' = out.str
        /\ IF out.str = payload
           THEN UNCHANGED <<message, counter>>
           ELSE /\ message' = coap_set_payload(out.str, out.ret)
                /\ counter' = (counter + 1) % 65536
  /\ periodic_timer' = periodic_timer + TEMP_SENSING_INTERVAL
  /\ UNCHANGED <<pc, now, temperature, status, ventilation, leds,
                 previous_status, sensing_timer, sim_timer, sim_msgs, request,
                 response, body, h>>

\* temperature_periodic_handler, called by the REST engine each time the
\* period of PERIODIC_RESOURCE(temperature) elapses; the engine re-arms the
\* timer.  counter is a uint16_t.
temperature_periodic_handler ==
  /\ PeriodicExpired
  /\ LET out == snprintf(PayloadSize, PeriodicFormat(temperature))
     IN /\ payload' = out.str
        /\ message' = coap_set_payload(out.str, out.ret)
  /\ counter' = (counter + 1) % 65536
  /\ periodic_timer' = periodic_timer + TEMP_SENSING_INTERVAL
  /\ UNCHANGED <<pc, now, temperature, status, ventilation, leds,
                 previous_status, sensing_timer, sim_timer, sim_msgs, request,
                 response, body, h>>

\* A client's GET arrives at the REST engine.
ReceiveGet ==
  /\ pc = "run"
  /\ request = "none"
  /\ \E r \in ReadResources : request' = r
  /\ response' = "none"
  /\ body' = ""
  /\ UNCHANGED <<pc, now, temperature, status, ventilation, leds,
                 previous_status, sensing_timer, sim_timer, periodic_timer,
                 sim_msgs, counter, payload, message, h>>

\* systems_handler: GET systems.  The handler sets no status, the response
\* keeps the engine's default (REST.status.OK).
systems_handler ==
  /\ pc = "run"
  /\ request = "systems"
  /\ request' = "none"
  /\ LET out == snprintf(REST_MAX_CHUNK_SIZE,
                         SystemsFormat(BoolText(status = HEATING),
                                       BoolText(status = COOLING),
                                       BoolText(ventilation)))
     IN /\ body' = coap_set_payload(out.str, out.ret).text
        /\ h' = HistRead(h, request, body')
  /\ response' = OK
  /\ UNCHANGED <<pc, now, temperature, status, ventilation, leds,
                 previous_status, sensing_timer, sim_timer, periodic_timer,
                 sim_msgs, counter, payload, message>>

\* variant: the handler numbers its answers
temperature_handler_counting ==
  /\ pc = "run"
  /\ request = "temp"
  /\ request' = "none"
  /\ counter' = (counter + 1) % 65536
  /\ LET out == snprintf(PayloadSize, TempFormat(counter'))
     IN /\ body' = coap_set_payload(out.str, Len(out.str)).text
        /\ h' = HistRead(h, request, body')
  /\ response' = OK
  /\ UNCHANGED <<pc, now, temperature, status, ventilation, leds,
                 previous_status, sensing_timer, sim_timer, periodic_timer,
                 sim_msgs, payload, message>>

\* temperature_handler: GET temp.  Its payload buffer is a static of its own;
\* the response carries strlen(payload) bytes of it.
temperature_handler ==
  /\ pc = "run"
  /\ request = "temp"
  /\ request' = "none"
  /\ LET out == snprintf(PayloadSize, TempFormat(temperature))
     IN /\ body' = coap_set_payload(out.str, Len(out.str)).text
        /\ h' = HistRead(h, request, body')
  /\ response' = OK
  /\ UNCHANGED <<pc, now, temperature, status, ventilation, leds,
                 previous_status, sensing_timer, sim_timer, periodic_timer,
                 sim_msgs, counter, payload, message>>

\* process_post(&temperature_simulation, PROCESS_EVENT_MSG, NULL) called by
\* some process: the event is queued for temperature_simulation.  Handling
\* an event takes time, so only so many are posted within a second.
PostMsg ==
  /\ pc = "run"
  /\ h.posts < MaxMsgs
  /\ sim_msgs' = sim_msgs + 1
  /\ h' = [h EXCEPT !.posts = @ + 1]
  /\ UNCHANGED <<pc, now, temperature, status, ventilation, leds,
                 previous_status, sensing_timer, sim_timer, periodic_timer,
                 request, response, counter, payload, message, body>>

\* a step in which temperature_simulation handles its timer
TickStep == h'.ticks = h.ticks + 1

\* a step in which temperature_simulation takes a PROCESS_EVENT_MSG
MsgStep == sim_msgs' = sim_msgs - 1

\* ------------------------------------------------------------ specification
Next ==
  \/ boot_process
  \/ ClockTick
  \/ Receive
  \/ temperature_sensing
  \/ temperature_simulation
  \/ cooling_handler
  \/ heating_handler
  \/ ventilation_handler
  \/ temperature_periodic_handler

Spec == Init /\ [][Next]_vars

\* The mote observed within one second: at 10 s (the sensing and the
\* notification timers have just expired) or at 20 s (the simulation timer
\* too), before any tick of the simulation, with whatever status and
\* ventilation the requests so far have left; status was last changed in
\* this second if it is not Off.  Requests, reads and events posted to the
\* simulation are handled in any order; the clock does not advance.
InitInstant ==
  /\ pc = "run"
  /\ now \in {TEMP_SIM_INTERVAL \div 2, TEMP_SIM_INTERVAL}
  /\ \E r \in RandomValues : temperature = RandomTemperature(r)
  /\ status \in status_t
  /\ ventilation \in BOOLEAN
  /\ leds = (IF status = COOLING THEN {LEDS_BLUE} ELSE {})
            \cup (IF status = HEATING THEN {LEDS_RED} ELSE {})
            \cup (IF ventilation THEN {LEDS_GREEN} ELSE {})
  /\ previous_status = NONE
  /\ sensing_timer = now - TEMP_SENSING_INTERVAL
  /\ periodic_timer = now - TEMP_SENSING_INTERVAL
  /\ sim_timer = 0
  /\ sim_msgs = 0
  /\ request = "none"
  /\ response = (IF status = NONE THEN "none" ELSE OK)
  /\ counter = (now \div TEMP_SENSING_INTERVAL) - 1
  /\ payload = snprintf(PayloadSize, PeriodicFormat(temperature)).str
  /\ message = coap_set_payload(payload, Len(PeriodicFormat(temperature)))
  /\ body = ""
  /\ h = [held |-> IF status = NONE THEN now ELSE 0,
          t0 |-> temperature,
          vsame |-> (status # NONE \/ ~ventilation),
          phase |-> (status # NONE /\ now = TEMP_SIM_INTERVAL),
          vprev |-> IF ventilation THEN <<FALSE>> ELSE <<>>,
          ticks |-> 0,
          posts |-> 0,
          rd |-> <<>>]

NextInstant ==
  \/ Receive
  \/ ReceiveGet
  \/ PostMsg
  \/ temperature_sensing
  \/ temperature_simulation
  \/ cooling_handler
  \/ heating_handler
  \/ ventilation_handler
  \/ temperature_periodic_handler
  \/ systems_handler
  \/ temperature_handler

SpecInstant == InitInstant /\ [][NextInstant]_vars

\* The mote left to its timers: status and ventilation as requests in the
\* second of boot have left them (ventilation first), then no request any
\* more.  Events posted to the simulation may still arrive.
InitTimers ==
  /\ pc = "run"
  /\ now = 0
  /\ \E r \in RandomValues : temperature = RandomTemperature(r)
  /\ status \in status_t
  /\ ventilation \in BOOLEAN
  /\ leds = (IF status = COOLING THEN {LEDS_BLUE} ELSE {})
            \cup (IF status = HEATING THEN {LEDS_RED} ELSE {})
            \cup (IF ventilation THEN {LEDS_GREEN} ELSE {})
  /\ previous_status = NONE
  /\ sensing_timer = now
  /\ periodic_timer = now
  /\ sim_timer = now
  /\ sim_msgs = 0
  /\ request = "none"
  /\ response = (IF status = NONE /\ ~ventilation THEN "none" ELSE OK)
  /\ counter = 0
  /\ payload = ""
  /\ message = [text |-> "", length |-> 0]
  /\ body = ""
  /\ h = [HistInit EXCEPT !.t0 = temperature,
                          !.vsame = (status # NONE \/ ~ventilation),
                          !.vprev = IF ventilation THEN <<FALSE>> ELSE <<>>]

NextTimers ==
  \/ ClockTick
  \/ PostMsg
  \/ temperature_sensing
  \/ temperature_simulation
  \/ temperature_periodic_handler

\* Fair timer delivery: the clock keeps advancing, an expired etimer's event
\* is delivered to its process (the tick of the simulation: the
\* PROCESS_EVENT_TIMER pass of temperature_simulation), and a queued event is
\* taken by the process it was posted to.
FairTimers ==
  /\ InitTimers
  /\ [][NextTimers]_vars
  /\ SF_vars(ClockTick)
  /\ WF_vars(temperature_simulation /\ TickStep)
  /\ WF_vars(temperature_simulation)
  /\ WF_vars(temperature_sensing)
  /\ WF_vars(temperature_periodic_handler)

TypeOK ==
  /\ pc \in {"boot", "run"}
  /\ now \in 0..MaxTime
  /\ temperature \in Int
  /\ status \in status_t
  /\ ventilation \in BOOLEAN
  /\ leds \subseteq {LEDS_BLUE, LEDS_RED, LEDS_GREEN}
  /\ previous_status \in status_t
  /\ sim_msgs \in Nat
  /\ request \in Resources \cup ReadResources \cup {"none"}
  /\ response \in {"none", OK, BAD_REQUEST}
  /\ counter \in 0..65535

\* ------------------------------------------------------------------- claims
\* a step in which the handler of resource r answers the request in flight
Handled(r) == request = r /\ request' = "none"

LegalTransitions ==
  {<<NONE, COOLING>>, <<NONE, HEATING>>, <<COOLING, NONE>>, <<HEATING, NONE>>}

\* the integer a decimal text stands for
DigitValue(c) == CHOOSE d \in 0..9 : Digit(d) = c

RECURSIVE ParseNat(_)
ParseNat(t) ==
  IF Len(t) = 0 THEN 0
  ELSE 10 * ParseNat(SubSeq(t, 1, Len(t) - 1)) + DigitValue(SubSeq(t, Len(t), Len(t)))

ParseInt(t) ==
  IF Len(t) > 0 /\ SubSeq(t, 1, 1) = "-"
  THEN 0 - ParseNat(SubSeq(t, 2, Len(t)))
  ELSE ParseNat(t)

RECURSIVE Line(_)
\* the text up to its first newline
Line(t) ==
  IF Len(t) = 0 \/ SubSeq(t, 1, 1) = "\n" THEN ""
  ELSE SubSeq(t, 1, 1) \o Line(SubSeq(t, 2, Len(t)))

\* the temperature a subscriber reads from a notification: the number that
\* follows the field name (a value no int has when there is none)
NotifiedValue(m) ==
  IF Len(m.text) > 16 /\ SubSeq(m.text, 1, 16) = "{\n\"temperature\":"
  THEN ParseInt(Line(SubSeq(m.text, 17, Len(m.text))))
  ELSE 0 - 2^31 - 1

\* C1: a request on systems/cooling while status is HEATING, and a request on
\* systems/heating while status is COOLING, is answered BAD_REQUEST and
\* changes neither status, ventilation, temperature nor the actuators.
C1_ConflictRejected ==
  [][((Handled("systems/cooling") /\ status = HEATING)
       \/ (Handled("systems/heating") /\ status = COOLING))
     => /\ response' = BAD_REQUEST
        /\ UNCHANGED <<status, ventilation, temperature, leds>>]_vars

C1_Witness ==
  response = BAD_REQUEST /\ status = HEATING /\ ventilation /\ LEDS_RED \in leds

\* C2: every change of status is Off->Cooling, Off->Heating, Cooling->Off or
\* Heating->Off; never Cooling->Heating or Heating->Cooling.
C2_LegalTransitionsOnly ==
  [][status' # status => <<status, status'>> \in LegalTransitions]_vars

C2_Witness ==
  status = COOLING /\ h.held = 0 /\ now > TEMP_SIM_INTERVAL /\ response = OK

\* C3 (as claimed): a step of the program changes temperature only when
\* status has been held unchanged for a full simulation period.
C3_TickOnlyAfterFullPeriod ==
  [][(pc = "run" /\ temperature' # temperature)
     => h.held >= TEMP_SIM_INTERVAL]_vars

\* C4 (as claimed): every step that changes status posts one
\* PROCESS_EVENT_MSG to temperature_simulation.
C4_TransitionPostsEvent ==
  [][status' # status => sim_msgs' = sim_msgs + 1]_vars

\* C5: when exactly one simulation period has passed since Cooling (Heating)
\* was activated, with no further activation change and ventilation never
\* toggled, temperature is the temperature at activation minus (plus) 1 with
\* ventilation off and minus (plus) 2 with ventilation on.  "Exactly one
\* period" is the instant TEMP_SIM_INTERVAL seconds after the activation, at
\* the same side of the simulation tick as the activation was.
C5_OnePeriodDelta ==
  (/\ pc = "run"
   /\ status # NONE
   /\ h.held = TEMP_SIM_INTERVAL
   /\ h.vsame
   /\ SimExpired = h.phase)
  => /\ (status = COOLING /\ ~ventilation) => temperature = h.t0 - 1
     /\ (status = COOLING /\ ventilation) => temperature = h.t0 - 2
     /\ (status = HEATING /\ ~ventilation) => temperature = h.t0 + 1
     /\ (status = HEATING /\ ventilation) => temperature = h.t0 + 2

C5_Witness ==
  /\ status = COOLING
  /\ h.held = TEMP_SIM_INTERVAL
  /\ h.vsame
  /\ SimExpired = h.phase
  /\ ventilation
  /\ h.t0 = 25
  /\ temperature = 23

\* C6: a request on systems/cooling (systems/heating) is answered OK exactly
\* when status is Off or that kind, and BAD_REQUEST otherwise; from Off it
\* sets status to the kind and switches the actuator on, from the kind it
\* sets status to Off and switches the actuator off; ventilation and
\* temperature are unchanged.
C6_ToggleSucceeds ==
  [][/\ Handled("systems/cooling")
        => /\ response' = (IF status \in {NONE, COOLING} THEN OK ELSE BAD_REQUEST)
           /\ status = NONE => (status' = COOLING /\ LEDS_BLUE \in leds')
           /\ status = COOLING => (status' = NONE /\ LEDS_BLUE \notin leds')
           /\ UNCHANGED <<ventilation, temperature>>
     /\ Handled("systems/heating")
        => /\ response' = (IF status \in {NONE, HEATING} THEN OK ELSE BAD_REQUEST)
           /\ status = NONE => (status' = HEATING /\ LEDS_RED \in leds')
           /\ status = HEATING => (status' = NONE /\ LEDS_RED \notin leds')
           /\ UNCHANGED <<ventilation, temperature>>]_vars

C6_Witness ==
  /\ status = HEATING /\ response = OK /\ h.held = 0
  /\ leds = {LEDS_RED, LEDS_GREEN} /\ now = TEMP_SIM_INTERVAL

\* C7 (as claimed): a request for the kind that is already active is
\* answered BAD_REQUEST and leaves status unchanged.
C7_ActiveKindRejected ==
  [][((Handled("systems/cooling") /\ status = COOLING)
       \/ (Handled("systems/heating") /\ status = HEATING))
     => (response' = BAD_REQUEST /\ status' = status)]_vars

\* C7 (amended): a request for the kind that is already active is answered
\* OK and switches it off: status becomes Off and the actuator goes off.
C7_ActiveKindStopped ==
  [][/\ (Handled("systems/cooling") /\ status = COOLING)
        => (response' = OK /\ status' = NONE /\ LEDS_BLUE \notin leds')
     /\ (Handled("systems/heating") /\ status = HEATING)
        => (response' = OK /\ status' = NONE /\ LEDS_RED \notin leds')]_vars

C7_Witness ==
  status = NONE /\ response = OK /\ h.held = 0 /\ now > 0 /\ leds = {}

\* C8: a request on systems/ventilation is answered OK in every state, flips
\* ventilation, leaves the ventilation actuator on iff ventilation is then
\* set, and leaves status and temperature unchanged; after the second of two
\* requests ventilation is what it was before the first.
C8_VentilationToggle ==
  [][Handled("systems/ventilation")
     => /\ response' = OK
        /\ ventilation' = ~ventilation
        /\ (LEDS_GREEN \in leds') = ventilation'
        /\ UNCHANGED <<status, temperature>>
        /\ h.vprev # <<>> => ventilation' = h.vprev[1]]_vars

C8_Witness ==
  h.vprev = <<TRUE>> /\ ~ventilation /\ response = OK /\ status = HEATING

\* C9: when boot completes, temperature is in 10..30, status is Off,
\* ventilation is off and the simulator's recorded status is Off.
C9_BootState ==
  [][(pc = "boot" /\ pc' = "run")
     => /\ temperature' \in 10..30
        /\ status' = NONE
        /\ ventilation' = FALSE
        /\ previous_status' = NONE]_vars

C9_Witness ==
  pc = "run" /\ now = 0 /\ temperature = 30 /\ request = "none" /\ response = "none"

RECURSIVE StripNewlines(_)
StripNewlines(t) ==
  IF Len(t) = 0 THEN ""
  ELSE (IF SubSeq(t, 1, 1) = "\n" THEN "" ELSE SubSeq(t, 1, 1))
       \o StripNewlines(SubSeq(t, 2, Len(t)))

TrueFalse(b) == IF b THEN "true" ELSE "false"

\* C11: a read of systems or of temp changes neither status, ventilation nor
\* temperature, and when the read before it was of the same resource and
\* nothing wrote status, ventilation or temperature in between (no request
\* that changed them, no tick), it returns the same payload.
C11_ReadsIdempotent ==
  [][(Handled("systems") \/ Handled("temp"))
     => /\ UNCHANGED <<status, ventilation, temperature>>
        /\ (h.rd # <<>> /\ h.rd[1].res = request) => body' = h.rd[1].body]_vars

C11_Witness ==
  /\ h.rd # <<>> /\ h.rd[1].n = 2 /\ h.rd[1].res = "temp"
  /\ body = h.rd[1].body /\ body = TempFormat(29) /\ temperature = 29
  /\ status = COOLING

\* C12 (as claimed): the payload of a read of systems is, line breaks
\* aside, {"heating":"H","cooling":"C","ventilation":"V"} where H is true iff
\* status is Heating, C is true iff status is Cooling and V is true iff
\* ventilation is set, each value quoted once.
C12_SystemsPayload ==
  (h.rd # <<>> /\ h.rd[1].res = "systems")
  => StripNewlines(h.rd[1].body)
     = "{\"heating\":\"" \o TrueFalse(status = HEATING)
       \o "\",\"cooling\":\"" \o TrueFalse(status = COOLING)
       \o "\",\"ventilation\":\"" \o TrueFalse(ventilation) \o "\"}"

\* C13: when temperature_simulation takes a PROCESS_EVENT_MSG and status
\* differs from previous_status, the timer is restarted (a full period is to
\* run from now) and previous_status becomes status; when they are equal
\* neither the timer nor previous_status changes; temperature is unchanged in
\* both cases.
C13_ActivationChanged ==
  [][MsgStep
     => /\ IF previous_status # status
           THEN /\ sim_timer' = now
                /\ ~SimExpired'
                /\ previous_status' = status
           ELSE UNCHANGED <<sim_timer, previous_status>>
        /\ UNCHANGED temperature]_vars

\* the event was taken in the second the timer expired, before the tick:
\* the tick is put off
C13_Witness ==
  /\ now = TEMP_SIM_INTERVAL /\ sim_timer = now /\ h.ticks = 0
  /\ previous_status = HEATING /\ status = HEATING /\ sim_msgs = 0

\* C14: a tick of the simulation subtracts 1 from temperature when status is
\* Cooling (2 when ventilation is on at the tick), adds 1 (2) when status is
\* Heating and leaves it alone when status is Off; it changes neither status
\* nor ventilation.
C14_TickDelta ==
  [][TickStep
     => /\ (status = COOLING /\ ~ventilation) => temperature' = temperature - 1
        /\ (status = COOLING /\ ventilation) => temperature' = temperature - 2
        /\ (status = HEATING /\ ~ventilation) => temperature' = temperature + 1
        /\ (status = HEATING /\ ventilation) => temperature' = temperature + 2
        /\ status = NONE => temperature' = temperature
        /\ UNCHANGED <<status, ventilation>>]_vars

C14_Witness ==
  h.ticks = 2 /\ status = COOLING /\ ventilation /\ temperature = 6

\* C15: between handler executions the cooling actuator is on iff status is
\* Cooling, the heating actuator iff status is Heating and the ventilation
\* actuator iff ventilation is set; the cooling and heating actuators are
\* never on together.
C15_ActuatorsFollowState ==
  /\ (LEDS_BLUE \in leds) = (status = COOLING)
  /\ (LEDS_RED \in leds) = (status = HEATING)
  /\ (LEDS_GREEN \in leds) = ventilation
  /\ ~(LEDS_BLUE \in leds /\ LEDS_RED \in leds)

C15_Witness ==
  leds = {LEDS_BLUE, LEDS_GREEN} /\ status = COOLING /\ h.ticks = 1

\* C16: status is changed only by the cooling and heating handlers,
\* ventilation only by the ventilation handler and, once boot has drawn the
\* initial value, temperature only by the tick of the simulation; the step
\* of temperature_sensing and the periodic notification leave temperature,
\* status and ventilation unchanged.
C16_SingleWriter ==
  [][/\ status' # status
        => (Handled("systems/cooling") \/ Handled("systems/heating"))
     /\ ventilation' # ventilation => Handled("systems/ventilation")
     /\ (pc = "run" /\ temperature' # temperature) => TickStep
     /\ (pc = "run" /\ sensing_timer' # sensing_timer)
        => UNCHANGED <<temperature, status, ventilation>>
     /\ counter' # counter
        => UNCHANGED <<temperature, status, ventilation>>]_vars

C16_Witness ==
  /\ sensing_timer = 2 * TEMP_SIM_INTERVAL /\ counter = 8 /\ h.ticks = 2
  /\ temperature = 34 /\ status = HEATING

\* C17: every tick of the simulation, and every PROCESS_EVENT_MSG taken while
\* status differs from previous_status, leaves the timer armed for a full
\* period from now; under fair timer delivery each armed period that ends
\* before the clock stops is followed by the next tick; and with no request
\* after the first second every tick taken while status is Heating raises
\* temperature, every tick taken while Cooling lowers it, whatever the value
\* (no bound stops it).
C17_TicksRecur ==
  /\ [][/\ TickStep => (sim_timer' = now /\ ~SimExpired')
        /\ (MsgStep /\ previous_status # status)
           => (sim_timer' = now /\ ~SimExpired')
        /\ (TickStep /\ status = HEATING) => temperature' > temperature
        /\ (TickStep /\ status = COOLING) => temperature' < temperature]_vars
  /\ \A n \in 0..(MaxTime \div TEMP_SIM_INTERVAL) :
       (h.ticks = n /\ sim_timer + TEMP_SIM_INTERVAL <= MaxTime)
       ~> (h.ticks = n + 1 \/ sim_timer + TEMP_SIM_INTERVAL > MaxTime)

\* two ticks while Heating took the temperature above TEMP_RANDOM_MAX
C17_Witness ==
  /\ h.ticks = 2 /\ status = HEATING /\ ~ventilation
  /\ temperature = TEMP_RANDOM_MAX + 2
  /\ sim_timer = 2 * TEMP_SIM_INTERVAL /\ ~SimExpired

\* C18: a ventilation request neither restarts the simulation timer nor
\* posts an event to the simulation, and the size of the change a tick
\* applies while Cooling or Heating is 2 when ventilation is on at the tick
\* and 1 when it is off, whenever in the period ventilation was toggled.
C18_VentilationAtTick ==
  [][/\ Handled("systems/ventilation")
        => UNCHANGED <<sim_timer, sim_msgs, previous_status>>
     /\ (TickStep /\ status # NONE)
        => (IF ventilation
            THEN temperature' \in {temperature - 2, temperature + 2}
            ELSE temperature' \in {temperature - 1, temperature + 1})]_vars

\* ventilation was switched on in the second of the tick, after Cooling had
\* run the whole period without it, and the tick took 2
C18_Witness ==
  /\ now = TEMP_SIM_INTERVAL /\ ~SimExpired /\ h.ticks = 1
  /\ status = COOLING /\ h.held = TEMP_SIM_INTERVAL
  /\ ventilation /\ h.vprev = <<FALSE>> /\ response = OK
  /\ temperature = h.t0 - 2

\* the text a message or a response carries is whole: it ends with the
\* closing brace
Whole(t) == Len(t) > 0 /\ SubSeq(t, Len(t), Len(t)) = "}"

\* C19 (as claimed): the length temperature_periodic_handler hands to
\* coap_set_payload never exceeds PayloadSize - 1 and the message ends with
\* the closing brace; the payload of a read of temp fits as well and is whole.
C19_PayloadFits ==
  /\ counter > 0
     => /\ message.length <= PayloadSize - 1
        /\ Whole(message.text)
  /\ (h.rd # <<>> /\ h.rd[1].res = "temp")
     => /\ Len(h.rd[1].body) <= PayloadSize - 1
        /\ Whole(h.rd[1].body)

====
